---- MODULE Spec2Model ----
(***************************************************************************)
(* Model of the analytical core of src/dashboard.py: the cached loader     *)
(* load_data (with get_retention_group), the date-range and message-       *)
(* threshold filters, and calculate_metrics, as run by one top-to-bottom   *)
(* execution of the Streamlit script and its reruns.                       *)
(***************************************************************************)
EXTENDS Integers, Sequences, FiniteSets, TLC

VARIABLES
    files,                  \* the three CSV exports on disk
    cache,                  \* st.cache_data's store for load_data (key -> value)
    cache_src,              \* history: the file contents a cache entry was computed from
    pc,                     \* position of the running script
    member_df, channel_df, workspace_df,      \* module globals bound at line 111
    date_range,             \* value returned by st.sidebar.date_input
    start_date, end_date,
    filtered_workspace_df,
    min_messages,           \* value returned by st.sidebar.slider
    filtered_member_df,
    metrics,
    prev                    \* history: what the previous complete run bound and computed

vars == <<files, cache, cache_src, pc, member_df, channel_df, workspace_df,
          date_range, start_date, end_date, filtered_workspace_df,
          min_messages, filtered_member_df, metrics, prev>>

\* ------------------------------------------------------------------ bounds
MaxRows == 2            \* rows of a generated table
MaxDay == 3             \* calendar days 1..MaxDay
MaxDaysActive == 60     \* days_active values fed to get_retention_group

\* ------------------------------------------------------------------ values
\* An unbound Python name / an absent value is the empty tuple, a bound one <<v>>.
None == << >>
Some(v) == <<v>>
Val(o) == o[1]

\* A float as pandas holds it: NaN, or the exact quotient num/den.
NaN == [nan |-> TRUE, num |-> 0, den |-> 1]
Num(n) == [nan |-> FALSE, num |-> n, den |-> 1]
\* numpy true division: x / 0 is NaN (0/0) or inf, neither a number
Div(a, b) == IF b = 0 THEN NaN ELSE [nan |-> FALSE, num |-> a, den |-> b]
IsZero(x) == ~x.nan /\ x.num = 0

RECURSIVE SumSeq(_)
SumSeq(s) == IF s = << >> THEN 0 ELSE Head(s) + SumSeq(Tail(s))

Range(s) == {s[i] : i \in DOMAIN s}
Column(rows, c) == [i \in DOMAIN rows |-> rows[i][c]]
SetMax(S) == CHOOSE x \in S : \A y \in S : y <= x
SetMin(S) == CHOOSE x \in S : \A y \in S : x <= y

\* ------------------------------------------------------------------ CSV cells
\* A cell of a numeric column is its text, a sequence of characters.
Digits == {"0", "1", "2", "3", "4", "5", "6", "7", "8", "9"}
DigitVal(c) ==
    CASE c = "0" -> 0 [] c = "1" -> 1 [] c = "2" -> 2 [] c = "3" -> 3
      [] c = "4" -> 4 [] c = "5" -> 5 [] c = "6" -> 6 [] c = "7" -> 7
      [] c = "8" -> 8 [] c = "9" -> 9

AllDigits(s) == s # << >> /\ \A i \in DOMAIN s : s[i] \in Digits
IsIntText(s) ==
    \/ AllDigits(s)
    \/ s # << >> /\ s[1] = "-" /\ AllDigits(Tail(s))

RECURSIVE NatVal(_)
NatVal(s) == IF s = << >> THEN 0
             ELSE 10 * NatVal(SubSeq(s, 1, Len(s) - 1)) + DigitVal(s[Len(s)])
IntVal(s) == IF s[1] = "-" THEN 0 - NatVal(Tail(s)) ELSE NatVal(s)

\* the decimal text of a natural number below 100
NatText(n) == IF n < 10 THEN <<CHOOSE c \in Digits : DigitVal(c) = n>>
              ELSE <<CHOOSE c \in Digits : DigitVal(c) = n \div 10,
                     CHOOSE c \in Digits : DigitVal(c) = n % 10>>

\* pd.read_csv's type inference for a column: integers only -> int64, integers
\* and empty cells -> float64, anything else -> object (the cells stay text).
Dtype(cells) ==
    IF \A i \in DOMAIN cells : IsIntText(cells[i]) THEN "int64"
    ELSE IF \A i \in DOMAIN cells : IsIntText(cells[i]) \/ cells[i] = << >> THEN "float64"
    ELSE "object"

\* .astype(str): a missing cell of an object column becomes the text "nan"
AsTypeStr(cell) == IF cell = << >> THEN <<"n", "a", "n">> ELSE cell
\* .str.replace(',', '')
StripCommas(cell) == SelectSeq(cell, LAMBDA ch : ch # ",")
\* pd.to_numeric(errors='coerce') on one value
ToNumeric(cell) == IF IsIntText(cell) THEN Num(IntVal(cell)) ELSE NaN
\* .fillna(0)
FillNa0(x) == IF x.nan THEN Num(0) ELSE x


\* ------------------------------------------------------------------ the exports
MemberCols == {"user_id", "name", "display_name", "messages_posted", "days_active",
               "high_engagement"}
ChannelCols == {"channel", "messages_posted", "total_membership"}
WorkspaceCols == {"date", "daily_active_people", "messages_posted", "engagement_ratio",
                  "total_enabled_members"}

\* A file on disk: absent, or a header (cols) and rows.
File(cols, rows) == [exists |-> TRUE, cols |-> cols, rows |-> rows]
Absent == [exists |-> FALSE, cols |-> {}, rows |-> << >>]

\* Member rows as exported: the two numeric cells are text.
MemberCells ==
    { [messages_posted |-> <<"3">>, days_active |-> <<"4", "0">>, high_engagement |-> 1],
      [messages_posted |-> <<"1", ",", "0", "0", "0">>, days_active |-> <<"7">>,
       high_engagement |-> 0],
      [messages_posted |-> <<"-", "2">>, days_active |-> <<"x">>, high_engagement |-> 0],
      [messages_posted |-> << >>, days_active |-> <<"5">>, high_engagement |-> 1] }
MemberRow(i, c) == [user_id |-> i, messages_posted |-> c.messages_posted,
                    days_active |-> c.days_active, high_engagement |-> c.high_engagement]
MemberTables ==
    UNION { { [i \in 1..n |-> MemberRow(i, cs[i])] : cs \in [1..n -> MemberCells] }
            : n \in 0..MaxRows }

ChannelRow(i) == [channel |-> i, messages_posted |-> 20 * i, total_membership |-> 5 * i]
ChannelTables == { [i \in 1..n |-> ChannelRow(i)] : n \in 0..MaxRows }

\* Workspace rows: the date cell is the text of a day and an hour; day 0 is no date.
WorkspaceRow(d, h) ==
    [date |-> [day |-> d, hour |-> h], daily_active_people |-> 10 * d + h,
     messages_posted |-> 100 * d + h, engagement_ratio |-> 20 * d + h,
     total_enabled_members |-> 50 * d + h]
WorkspaceRows == {WorkspaceRow(d, 0) : d \in 0..MaxDay} \cup {WorkspaceRow(1, 12)}
\* (a workspace export has at least one record: the app reads its first and last
\* date for the date widget)
WorkspaceTables ==
    UNION { [1..n -> WorkspaceRows] : n \in 1..MaxRows }

BaseMembers ==
    <<MemberRow(1, CHOOSE c \in MemberCells : c.messages_posted = <<"3">>),
      MemberRow(2, CHOOSE c \in MemberCells : c.messages_posted = <<"1", ",", "0", "0", "0">>)>>
BaseChannels == <<ChannelRow(1)>>
BaseWorkspace == <<WorkspaceRow(1, 0), WorkspaceRow(2, 0)>>
BaseFiles == [member |-> File(MemberCols, BaseMembers),
              channel |-> File(ChannelCols, BaseChannels),
              workspace |-> File(WorkspaceCols, BaseWorkspace)]

\* The exports the app may be started on: the base exports with one of them
\* replaced by another table, by a table lacking a column, or removed.
SourceFiles ==
    {[BaseFiles EXCEPT !.member = File(MemberCols, t)] : t \in MemberTables}
    \cup {[BaseFiles EXCEPT !.channel = File(ChannelCols, t)] : t \in ChannelTables}
    \cup {[BaseFiles EXCEPT !.workspace = File(WorkspaceCols, t)] : t \in WorkspaceTables}
    \cup {[BaseFiles EXCEPT !.member = File(MemberCols \ {c}, BaseMembers)]
            : c \in {"days_active", "high_engagement"}}
    \cup {[BaseFiles EXCEPT !.channel = File(ChannelCols \ {c}, BaseChannels)]
            : c \in {"messages_posted"}}
    \cup {[BaseFiles EXCEPT !.workspace = File(WorkspaceCols \ {c}, BaseWorkspace)]
            : c \in {"date", "engagement_ratio"}}
    \cup {[BaseFiles EXCEPT ![f] = Absent] : f \in {"member", "channel", "workspace"}}

\* ------------------------------------------------------------------ load_data
\* A data frame: its columns and its rows in index order.
Frame(cols, rows) == [cols |-> cols, rows |-> rows]

\* pd.read_csv raises FileNotFoundError
FileNotFound(f) == ~f.member.exists \/ ~f.channel.exists \/ ~f.workspace.exists

\* pd.to_datetime on one cell: a Timestamp (hours since day 0), or no date
DateParses(cell) == cell.day \in 1..31 /\ cell.hour \in 0..23
ToDatetime(cell) == 24 * cell.day + cell.hour
\* Timestamp.date()
DateOf(ts) == ts \div 24

\* the exceptions of lines 85-95 that load_data does not catch: KeyError for a
\* column it indexes, ValueError for a date pd.to_datetime cannot parse
LoadRaises(f) ==
    \/ "date" \notin f.workspace.cols
    \/ \E i \in DOMAIN f.workspace.rows : ~DateParses(f.workspace.rows[i].date)
    \/ "messages_posted" \notin f.member.cols
    \/ "days_active" \notin f.member.cols
    \/ "display_name" \notin f.member.cols
    \/ "name" \notin f.member.cols

\* get_retention_group with the second bound exclusive (days < 15)
get_retention_group_exclusive(days) ==
    IF days.num <= 5 THEN "0-5 days"
    ELSE IF days.num < 15 THEN "6-15 days"
    ELSE IF days.num <= 30 THEN "16-30 days"
    ELSE "30+ days"

get_retention_group(days) ==
    IF days.num <= 5 THEN "0-5 days"
    ELSE IF days.num <= 15 THEN "6-15 days"
    ELSE IF days.num <= 30 THEN "16-30 days"
    ELSE "30+ days"

\* lines 88-91
CleanMessagesPosted(cells) ==
    LET text == IF Dtype(cells) = "object"
                THEN [i \in DOMAIN cells |-> StripCommas(AsTypeStr(cells[i]))]
                ELSE cells
    IN [i \in DOMAIN cells |-> FillNa0(ToNumeric(text[i]))]
\* line 92
CleanDaysActive(cells) == [i \in DOMAIN cells |-> FillNa0(ToNumeric(cells[i]))]

NormalizeMembers(file) ==
    LET msgs == CleanMessagesPosted(Column(file.rows, "messages_posted"))
        days == CleanDaysActive(Column(file.rows, "days_active"))
    IN Frame(file.cols \cup {"retention_group"},
             [i \in DOMAIN file.rows |->
                [user_id |-> file.rows[i].user_id,
                 messages_posted |-> msgs[i],
                 days_active |-> days[i],
                 high_engagement |-> file.rows[i].high_engagement,
                 retention_group |-> get_retention_group(days[i])]])

NormalizeChannels(file) == Frame(file.cols, file.rows)

NormalizeWorkspace(file) ==
    Frame(file.cols,
          [i \in DOMAIN file.rows |->
             [file.rows[i] EXCEPT !.date = ToDatetime(file.rows[i].date)]])

\* the tuple load_data returns (line 106)
Normalize(f) == [member_df |-> NormalizeMembers(f.member),
                 channel_df |-> NormalizeChannels(f.channel),
                 workspace_df |-> NormalizeWorkspace(f.workspace)]

\* st.cache_data keys an entry by the function and its arguments; load_data
\* takes none, so there is one key.
LoadDataKey == "load_data()"
EmptyCache == [k \in {} |-> None]

Unbound ==
    /\ member_df = None /\ channel_df = None /\ workspace_df = None
    /\ date_range = None /\ start_date = None /\ end_date = None
    /\ filtered_workspace_df = None /\ min_messages = None
    /\ filtered_member_df = None /\ metrics = None

Init ==
    /\ files \in SourceFiles
    /\ cache = EmptyCache
    /\ cache_src = EmptyCache
    /\ pc = "load"
    /\ Unbound
    /\ prev = None

Bind(v) ==
    /\ member_df' = Some(v.member_df)
    /\ channel_df' = Some(v.channel_df)
    /\ workspace_df' = Some(v.workspace_df)

\* line 111, the cache holds the key: the stored value is returned, no file is read
LoadDataHit ==
    /\ pc = "load"
    /\ LoadDataKey \in DOMAIN cache
    /\ Bind(cache[LoadDataKey])
    /\ pc' = "date_filter"
    /\ UNCHANGED <<files, cache, cache_src, date_range, start_date, end_date,
                   filtered_workspace_df, min_messages, filtered_member_df, metrics, prev>>

\* line 111, a miss: the body runs to its return and the result is stored
LoadDataMiss ==
    /\ pc = "load"
    /\ LoadDataKey \notin DOMAIN cache
    /\ ~FileNotFound(files) /\ ~LoadRaises(files)
    /\ Bind(Normalize(files))
    /\ cache' = (LoadDataKey :> Normalize(files)) @@ cache
    /\ cache_src' = (LoadDataKey :> files) @@ cache_src
    /\ pc' = "date_filter"
    /\ UNCHANGED <<files, date_range, start_date, end_date,
                   filtered_workspace_df, min_messages, filtered_member_df, metrics, prev>>

\* lines 107-109: st.error, then st.stop() ends the script run
LoadDataNotFound ==
    /\ pc = "load"
    /\ LoadDataKey \notin DOMAIN cache
    /\ FileNotFound(files)
    /\ pc' = "stopped"
    /\ UNCHANGED <<files, cache, cache_src, member_df, channel_df, workspace_df,
                   date_range, start_date, end_date, filtered_workspace_df,
                   min_messages, filtered_member_df, metrics, prev>>

\* an exception other than FileNotFoundError leaves load_data and ends the run
LoadDataRaises ==
    /\ pc = "load"
    /\ LoadDataKey \notin DOMAIN cache
    /\ ~FileNotFound(files) /\ LoadRaises(files)
    /\ pc' = "raised"
    /\ UNCHANGED <<files, cache, cache_src, member_df, channel_df, workspace_df,
                   date_range, start_date, end_date, filtered_workspace_df,
                   min_messages, filtered_member_df, metrics, prev>>


\* ------------------------------------------------------------------ date-range filter
\* lines 184-185 (Series.min/max skip nothing here: every date parsed)
min_date(w) == DateOf(SetMin(Range(Column(w.rows, "date"))))
max_date(w) == DateOf(SetMax(Range(Column(w.rows, "date"))))

\* What st.sidebar.date_input may hand back: a bare date, or a tuple of dates.
\* A tuple longer than 2 is read only for its length.
Bare(d) == [bare |-> TRUE, vals |-> <<d>>]
Tuple(ds) == [bare |-> FALSE, vals |-> ds]
DateInputs(lo, hi) ==
    {Bare(d) : d \in lo..hi}
    \cup {Tuple(ds) : ds \in UNION {[1..n -> lo..hi] : n \in 0..2}}
    \cup {Tuple(<<d, d, d>>) : d \in lo..hi}

\* the normalization with the one-element case left to the fallback
NormalizeDateRange_no_single(dr, lo, hi) ==
    IF ~dr.bare
    THEN IF Len(dr.vals) = 2 THEN [start_date |-> dr.vals[1], end_date |-> dr.vals[2]]
         ELSE [start_date |-> lo, end_date |-> hi]
    ELSE [start_date |-> dr.vals[1], end_date |-> dr.vals[1]]

\* lines 195-204
NormalizeDateRange(dr, lo, hi) ==
    IF ~dr.bare
    THEN IF Len(dr.vals) = 2 THEN [start_date |-> dr.vals[1], end_date |-> dr.vals[2]]
         ELSE IF Len(dr.vals) = 1 THEN [start_date |-> dr.vals[1], end_date |-> dr.vals[1]]
         ELSE [start_date |-> lo, end_date |-> hi]
    ELSE [start_date |-> dr.vals[1], end_date |-> dr.vals[1]]

\* the mask with the end bound exclusive
InDateRange_end_exclusive(row, s, e) == DateOf(row.date) >= s /\ DateOf(row.date) < e

\* line 206
InDateRange(row, s, e) == DateOf(row.date) >= s /\ DateOf(row.date) <= e
DateMask(w, s, e) == SelectSeq(w.rows, LAMBDA row : InDateRange(row, s, e))

\* line 207: sort_values('date') orders by the timestamp; its default quicksort
\* is not stable, so rows of equal timestamp may come out in either order.
IsSortedByDate(rows) ==
    \A i \in DOMAIN rows : \A j \in DOMAIN rows : i < j => rows[i].date <= rows[j].date
SortValuesDate(rows) ==
    {s \in {[i \in DOMAIN rows |-> rows[p[i]]] : p \in Permutations(DOMAIN rows)}
        : IsSortedByDate(s)}

DateFilter ==
    /\ pc = "date_filter"
    /\ LET w == Val(workspace_df)
           lo == min_date(w)
           hi == max_date(w)
       IN \E dr \in DateInputs(lo, hi) :
            LET n == NormalizeDateRange(dr, lo, hi)
            IN /\ date_range' = Some(dr)
               /\ start_date' = Some(n.start_date)
               /\ end_date' = Some(n.end_date)
               /\ \E s \in SortValuesDate(DateMask(w, n.start_date, n.end_date)) :
                     filtered_workspace_df' = Some(Frame(w.cols, s))
    /\ pc' = "member_filter"
    /\ UNCHANGED <<files, cache, cache_src, member_df, channel_df, workspace_df,
                   min_messages, filtered_member_df, metrics, prev>>

\* ------------------------------------------------------------------ message filter
\* line 212: the slider runs from 0 to int(max messages_posted) and starts at 0;
\* st.slider widens its bounds to hold the start value, so under a negative
\* maximum it runs from that maximum to 0. Of the values it can return, 0 and
\* those that are some member's count decide the view.
SliderInputs(m) ==
    LET counts == {r.messages_posted.num : r \in Range(m.rows)}
    IN {0} \cup {v \in counts : v > 0 \/ (v < 0 /\ v = SetMax(counts))}

\* line 213
MessageMask(m, least) == SelectSeq(m.rows, LAMBDA r : r.messages_posted.num >= least)

\* line 213 had it rebound the global: member_df = member_df[...]
MemberFilter_in_place ==
    /\ pc = "member_filter"
    /\ Val(member_df).rows # << >>
    /\ \E least \in SliderInputs(Val(member_df)) :
         /\ min_messages' = Some(least)
         /\ member_df' =
               Some(Frame(Val(member_df).cols, MessageMask(Val(member_df), least)))
         /\ filtered_member_df' =
               Some(Frame(Val(member_df).cols, MessageMask(Val(member_df), least)))
    /\ pc' = "metrics"
    /\ UNCHANGED <<files, cache, cache_src, channel_df, workspace_df,
                   date_range, start_date, end_date, filtered_workspace_df, metrics, prev>>

MemberFilter ==
    /\ pc = "member_filter"
    /\ Val(member_df).rows # << >>
    /\ \E least \in SliderInputs(Val(member_df)) :
         /\ min_messages' = Some(least)
         /\ filtered_member_df' =
               Some(Frame(Val(member_df).cols, MessageMask(Val(member_df), least)))
    /\ pc' = "metrics"
    /\ UNCHANGED <<files, cache, cache_src, member_df, channel_df, workspace_df,
                   date_range, start_date, end_date, filtered_workspace_df, metrics, prev>>

\* line 212 on a member table without rows: max() is NaN and int(NaN) raises
MemberFilterRaises ==
    /\ pc = "member_filter"
    /\ Val(member_df).rows = << >>
    /\ pc' = "raised"
    /\ UNCHANGED <<files, cache, cache_src, member_df, channel_df, workspace_df,
                   date_range, start_date, end_date, filtered_workspace_df,
                   min_messages, filtered_member_df, metrics, prev>>

\* ------------------------------------------------------------------ calculate_metrics
\* Series.mean() and Series.max(): NaN over no rows
Mean(s) == IF s = << >> THEN NaN ELSE Div(SumSeq(s), Len(s))
Max(s) == IF s = << >> THEN NaN ELSE Num(SetMax(Range(s)))
NumColumn(rows, c) == [i \in DOMAIN rows |-> rows[i][c].num]

\* lines 118-125
total_members(m) == Cardinality(Range(Column(m.rows, "user_id")))
total_member_messages(m) == SumSeq(NumColumn(m.rows, "messages_posted"))
avg_messages_per_member(m) ==
    IF total_members(m) > 0 THEN Div(total_member_messages(m), total_members(m)) ELSE Num(0)
avg_days_active(m) == Mean(NumColumn(m.rows, "days_active"))
high_engagement_count(m) == SumSeq(Column(m.rows, "high_engagement"))
pct_high_engagement(m) ==
    IF total_members(m) > 0 THEN Div(high_engagement_count(m) * 100, total_members(m))
    ELSE Num(0)
members_with_messages(m) == Len(SelectSeq(m.rows, LAMBDA r : r.messages_posted.num > 0))
pct_members_with_messages(m) ==
    IF total_members(m) > 0 THEN Div(members_with_messages(m) * 100, total_members(m))
    ELSE Num(0)

\* lines 128-131
total_channels(c) == Cardinality(Range(Column(c.rows, "channel")))
total_channel_messages(c) == SumSeq(Column(c.rows, "messages_posted"))
avg_messages_per_channel(c) ==
    IF total_channels(c) > 0 THEN Div(total_channel_messages(c), total_channels(c))
    ELSE Num(0)

\* line 140 without its guard: the last element of no rows is no number
latest_enabled_members_unguarded(fw) ==
    IF Len(fw.rows) > 0 THEN Num(fw.rows[Len(fw.rows)].total_enabled_members) ELSE NaN

\* line 140
latest_enabled_members(fw) ==
    IF Len(fw.rows) > 0 THEN Num(fw.rows[Len(fw.rows)].total_enabled_members) ELSE Num(0)

\* the columns calculate_metrics indexes
MetricsMemberCols == {"user_id", "messages_posted", "days_active", "high_engagement"}
MetricsChannelCols == {"channel", "messages_posted", "total_membership"}
MetricsWorkspaceCols == {"daily_active_people", "messages_posted", "engagement_ratio",
                         "total_enabled_members"}
MetricsKeyError(m, c, fw) ==
    ~(MetricsMemberCols \subseteq m.cols /\ MetricsChannelCols \subseteq c.cols
      /\ MetricsWorkspaceCols \subseteq fw.cols)

calculate_metrics(m, c, w, fw) ==
    [total_members |-> Num(total_members(m)),
     total_member_messages |-> Num(total_member_messages(m)),
     avg_messages_per_member |-> avg_messages_per_member(m),
     avg_days_active |-> avg_days_active(m),
     high_engagement_count |-> Num(high_engagement_count(m)),
     pct_high_engagement |-> pct_high_engagement(m),
     members_with_messages |-> Num(members_with_messages(m)),
     pct_members_with_messages |-> pct_members_with_messages(m),
     total_channels |-> Num(total_channels(c)),
     total_channel_messages |-> Num(total_channel_messages(c)),
     avg_messages_per_channel |-> avg_messages_per_channel(c),
     total_channel_membership |-> Num(SumSeq(Column(c.rows, "total_membership"))),
     peak_daily_active |-> Max(Column(fw.rows, "daily_active_people")),
     peak_messages_per_day |-> Max(Column(fw.rows, "messages_posted")),
     avg_daily_active |-> Mean(Column(fw.rows, "daily_active_people")),
     avg_messages_per_day |-> Mean(Column(fw.rows, "messages_posted")),
     total_messages_period |-> Num(SumSeq(Column(fw.rows, "messages_posted"))),
     avg_engagement_ratio |-> Mean(Column(fw.rows, "engagement_ratio")),
     latest_enabled_members |-> latest_enabled_members(fw)]

\* line 216
CalculateMetrics ==
    /\ pc = "metrics"
    /\ ~MetricsKeyError(Val(filtered_member_df), Val(channel_df), Val(filtered_workspace_df))
    /\ metrics' = Some(calculate_metrics(Val(filtered_member_df), Val(channel_df),
                                         Val(workspace_df), Val(filtered_workspace_df)))
    /\ pc' = "done"
    /\ UNCHANGED <<files, cache, cache_src, member_df, channel_df, workspace_df,
                   date_range, start_date, end_date, filtered_workspace_df,
                   min_messages, filtered_member_df, prev>>

\* line 216 when a column calculate_metrics indexes is not in its frame: KeyError
CalculateMetricsRaises ==
    /\ pc = "metrics"
    /\ MetricsKeyError(Val(filtered_member_df), Val(channel_df), Val(filtered_workspace_df))
    /\ pc' = "raised"
    /\ UNCHANGED <<files, cache, cache_src, member_df, channel_df, workspace_df,
                   date_range, start_date, end_date, filtered_workspace_df,
                   min_messages, filtered_member_df, metrics, prev>>

\* ------------------------------------------------------------------ reruns, the exports
\* A widget change (or a reload) runs the script again from the top in fresh
\* globals; st.cache_data's store outlives the run.
Rerun ==
    /\ pc \in {"done", "stopped", "raised"}
    /\ pc' = "load"
    /\ member_df' = None /\ channel_df' = None /\ workspace_df' = None
    /\ date_range' = None /\ start_date' = None /\ end_date' = None
    /\ filtered_workspace_df' = None /\ min_messages' = None
    /\ filtered_member_df' = None /\ metrics' = None
    /\ UNCHANGED <<files, cache, cache_src, prev>>

\* The export job writes the workspace file again with the next day's record
\* appended; the app takes no part in it.
ExportAppendsDay ==
    /\ files.workspace.exists
    /\ "date" \in files.workspace.cols
    /\ \A i \in DOMAIN files.workspace.rows : DateParses(files.workspace.rows[i].date)
    /\ Len(files.workspace.rows) \in 1..(MaxRows - 1)
    /\ LET next == 1 + SetMax({r.date.day : r \in Range(files.workspace.rows)})
       IN /\ next <= MaxDay
          /\ files' = [files EXCEPT !.workspace.rows = Append(@, WorkspaceRow(next, 0))]
    /\ UNCHANGED <<cache, cache_src, pc, member_df, channel_df, workspace_df,
                   date_range, start_date, end_date, filtered_workspace_df,
                   min_messages, filtered_member_df, metrics, prev>>

Next ==
    \/ LoadDataHit
    \/ LoadDataMiss
    \/ LoadDataNotFound
    \/ LoadDataRaises
    \/ DateFilter
    \/ MemberFilter
    \/ MemberFilterRaises
    \/ CalculateMetrics
    \/ CalculateMetricsRaises
    \/ Rerun
    \/ ExportAppendsDay

Spec == Init /\ [][Next]_vars


\* ------------------------------------------------------------------ get_retention_group alone
\* The loader run on a member export of one row, for every days_active
\* 0..MaxDaysActive.
InitClassify ==
    /\ \E d \in 0..MaxDaysActive :
         files = [BaseFiles EXCEPT !.member.rows =
                    <<[user_id |-> 1, messages_posted |-> <<"3">>,
                       days_active |-> NatText(d), high_engagement |-> 0]>>]
    /\ cache = EmptyCache
    /\ cache_src = EmptyCache
    /\ pc = "load"
    /\ Unbound
    /\ prev = None

SpecClassify == InitClassify /\ [][LoadDataMiss]_vars

\* ------------------------------------------------------------------ calculate_metrics alone
\* calculate_metrics applied to any member view (a threshold view of a
\* normalized member table, the empty one included), any channel table and any
\* date-range view of an ascending workspace series.
Thresholds(m) == SliderInputs(m) \cup {1 + SetMax(SliderInputs(m))}
MemberViews(m) == {Frame(m.cols, MessageMask(m, least)) : least \in Thresholds(m)}
AscendingWorkspaces ==
    {NormalizeWorkspace(File(WorkspaceCols, t)) :
        t \in {x \in WorkspaceTables :
                 /\ \A i \in DOMAIN x : DateParses(x[i].date)
                 /\ \A i \in DOMAIN x : \A j \in DOMAIN x :
                        i < j => ToDatetime(x[i].date) < ToDatetime(x[j].date)}}
WorkspaceViews(w) ==
    {Frame(w.cols, DateMask(w, s, e)) : s \in 1..(MaxDay + 1), e \in 1..(MaxDay + 1)}

InitMetrics ==
    /\ files = BaseFiles
    /\ cache = EmptyCache
    /\ cache_src = EmptyCache
    /\ pc = "metrics"
    /\ \E t \in MemberTables :
          /\ member_df = Some(NormalizeMembers(File(MemberCols, t)))
          /\ \E v \in MemberViews(NormalizeMembers(File(MemberCols, t))) :
                filtered_member_df = Some(v)
    /\ \E t \in ChannelTables : channel_df = Some(NormalizeChannels(File(ChannelCols, t)))
    /\ \E w \in AscendingWorkspaces :
          /\ workspace_df = Some(w)
          /\ \E v \in WorkspaceViews(w) : filtered_workspace_df = Some(v)
    /\ date_range = None /\ start_date = None /\ end_date = None
    /\ min_messages = None /\ metrics = None
    /\ prev = None

SpecMetrics == InitMetrics /\ [][CalculateMetrics]_vars

\* ------------------------------------------------------------------ runs after a filter change
\* The run that follows a complete run (a widget was moved): as Rerun, with the
\* finished run's datasets, selections, views and metrics kept in prev.
RerunAfterRun ==
    /\ pc = "done"
    /\ prev' = Some([member_df |-> member_df, channel_df |-> channel_df,
                     workspace_df |-> workspace_df, date_range |-> date_range,
                     min_messages |-> min_messages,
                     filtered_member_df |-> filtered_member_df,
                     filtered_workspace_df |-> filtered_workspace_df,
                     metrics |-> metrics])
    /\ pc' = "load"
    /\ member_df' = None /\ channel_df' = None /\ workspace_df' = None
    /\ date_range' = None /\ start_date' = None /\ end_date' = None
    /\ filtered_workspace_df' = None /\ min_messages' = None
    /\ filtered_member_df' = None /\ metrics' = None
    /\ UNCHANGED <<files, cache, cache_src>>

\* Complete exports on which every run reaches calculate_metrics: the base
\* exports with another member table of at least one row, or another workspace
\* table, in any order, whose dates all parse and that holds no record twice.
RerunFiles ==
    {[BaseFiles EXCEPT !.member = File(MemberCols, t)] : t \in MemberTables \ {<< >>}}
    \cup {[BaseFiles EXCEPT !.workspace = File(WorkspaceCols, t)]
            : t \in {x \in WorkspaceTables :
                       /\ \A i \in DOMAIN x : DateParses(x[i].date)
                       /\ \A i \in DOMAIN x : \A j \in DOMAIN x : x[i] = x[j] => i = j}}

InitReruns ==
    /\ files \in RerunFiles
    /\ cache = EmptyCache
    /\ cache_src = EmptyCache
    /\ pc = "load"
    /\ Unbound
    /\ prev = None

NextReruns ==
    \/ LoadDataHit
    \/ LoadDataMiss
    \/ DateFilter
    \/ MemberFilter
    \/ CalculateMetrics
    \/ RerunAfterRun

SpecReruns == InitReruns /\ [][NextReruns]_vars

\* ------------------------------------------------------------------ claims
Buckets == {"0-5 days", "6-15 days", "16-30 days", "30+ days"}
LoadedRows(df) == IF df = None THEN << >> ELSE Val(df).rows

\* C1: for every days_active >= 0 the retention group of a loaded member is one
\* of the four buckets, and it is "0-5 days" exactly for 0..5, "6-15 days"
\* exactly for 6..15, "16-30 days" exactly for 16..30 and "30+ days" exactly
\* from 31 on.
C1_RetentionPartition ==
    \A r \in Range(LoadedRows(member_df)) :
        LET d == r.days_active.num
            g == r.retention_group
        IN d >= 0 =>
             /\ g \in Buckets
             /\ (g = "0-5 days") = (d \in 0..5)
             /\ (g = "6-15 days") = (d \in 6..15)
             /\ (g = "16-30 days") = (d \in 16..30)
             /\ (g = "30+ days") = (d >= 31)

C1_Witness ==
    \E r \in Range(LoadedRows(member_df)) :
        r.days_active.num = 15 /\ r.retention_group = "6-15 days"

\* C2: once calculate_metrics has returned, an empty member view gives 0 for
\* avg_messages_per_member and both percentages, an empty channel table gives 0
\* for avg_messages_per_channel, and an empty filtered workspace view gives 0
\* for latest_enabled_members.
C2_GuardedZero ==
    metrics # None =>
        /\ Val(filtered_member_df).rows = << >> =>
              /\ Val(metrics).avg_messages_per_member = Num(0)
              /\ Val(metrics).pct_high_engagement = Num(0)
              /\ Val(metrics).pct_members_with_messages = Num(0)
        /\ Val(channel_df).rows = << >> => Val(metrics).avg_messages_per_channel = Num(0)
        /\ Val(filtered_workspace_df).rows = << >> =>
              Val(metrics).latest_enabled_members = Num(0)

C2_Witness ==
    /\ metrics # None
    /\ Val(filtered_member_df).rows = << >>
    /\ Val(member_df).rows # << >>
    /\ Val(channel_df).rows = << >>
    /\ Val(filtered_workspace_df).rows = << >>
    /\ Val(metrics).latest_enabled_members = Num(0)

\* C3: once calculate_metrics has returned, avg_days_active is 0 for an empty
\* member view, and avg_daily_active, avg_messages_per_day and
\* avg_engagement_ratio are 0 for an empty filtered workspace view.
C3_AveragesZero ==
    metrics # None =>
        /\ Val(filtered_member_df).rows = << >> => IsZero(Val(metrics).avg_days_active)
        /\ Val(filtered_workspace_df).rows = << >> =>
              /\ IsZero(Val(metrics).avg_daily_active)
              /\ IsZero(Val(metrics).avg_messages_per_day)
              /\ IsZero(Val(metrics).avg_engagement_ratio)

\* C4: every load_data call that returns hands back the datasets normalized
\* from the files as they are at the call, leaves the cache alone when the
\* entry was computed from that same content, and no step changes an entry the
\* cache already holds.
C4_ContentKeyed ==
    [][ /\ (pc = "load" /\ pc' = "date_filter") =>
              /\ member_df' = Some(Normalize(files).member_df)
              /\ channel_df' = Some(Normalize(files).channel_df)
              /\ workspace_df' = Some(Normalize(files).workspace_df)
              /\ (LoadDataKey \in DOMAIN cache /\ cache_src[LoadDataKey] = files)
                    => cache' = cache
        /\ \A k \in DOMAIN cache : k \in DOMAIN cache' /\ cache'[k] = cache[k] ]_vars

\* C5: in the loaded member table messages_posted and days_active are numbers,
\* never NaN and never negative, and a cell that is no number once its commas
\* are stripped is 0.
C5_MemberNumbers ==
    member_df # None =>
        LET raw == cache_src[LoadDataKey].member.rows
            rows == Val(member_df).rows
        IN \A i \in DOMAIN rows :
              /\ ~rows[i].messages_posted.nan /\ rows[i].messages_posted.num >= 0
              /\ ~rows[i].days_active.nan /\ rows[i].days_active.num >= 0
              /\ ~IsIntText(StripCommas(raw[i].messages_posted))
                    => rows[i].messages_posted = Num(0)
              /\ ~IsIntText(StripCommas(raw[i].days_active)) => rows[i].days_active = Num(0)

\* C6: with min_messages = 0 the filtered member view has the rows of the loaded
\* member table, hence the same user_id values.
C6_ZeroThresholdIdentity ==
    (min_messages # None /\ Val(min_messages) = 0) =>
        /\ Val(filtered_member_df).rows = Val(member_df).rows
        /\ Range(Column(Val(filtered_member_df).rows, "user_id"))
              = Range(Column(Val(member_df).rows, "user_id"))

\* C7: with start_date = end_date = d the filtered workspace view holds exactly
\* the loaded records dated d, and they are 0 or 1 records.
C7_SingleDay ==
    (start_date # None /\ start_date = end_date) =>
        LET d == Val(start_date)
            dated == SelectSeq(Val(workspace_df).rows, LAMBDA r : DateOf(r.date) = d)
            view == Val(filtered_workspace_df).rows
        IN /\ Range(view) = Range(dated)
           /\ Len(view) = Len(dated)
           /\ Len(view) <= 1

FullRange ==
    /\ start_date # None
    /\ Val(start_date) = min_date(Val(workspace_df))
    /\ Val(end_date) = max_date(Val(workspace_df))

NoRecordIn(w, s, e) == \A r \in Range(w.rows) : ~(s <= DateOf(r.date) /\ DateOf(r.date) <= e)

\* C9 as claimed: a single value is start and end; a tuple of another length
\* than 1 or 2, and a pair whose start lies after its end, give
\* [min_date, max_date]; a range without records gives an empty view.
C9_ReversedFallsBack ==
    date_range # None =>
        LET dr == Val(date_range)
            lo == min_date(Val(workspace_df))
            hi == max_date(Val(workspace_df))
            s == Val(start_date)
            e == Val(end_date)
        IN /\ (dr.bare \/ Len(dr.vals) = 1) => (s = dr.vals[1] /\ e = dr.vals[1])
           /\ (~dr.bare /\ Len(dr.vals) \notin {1, 2}) => (s = lo /\ e = hi)
           /\ (~dr.bare /\ Len(dr.vals) = 2 /\ dr.vals[1] > dr.vals[2]) => (s = lo /\ e = hi)
           /\ (~dr.bare /\ Len(dr.vals) = 2 /\ dr.vals[1] <= dr.vals[2])
                 => (s = dr.vals[1] /\ e = dr.vals[2])
           /\ filtered_workspace_df # None
           /\ NoRecordIn(Val(workspace_df), s, e) => Val(filtered_workspace_df).rows = << >>

\* C9: a single value is start and end; a tuple of another length than 1 or 2
\* gives [min_date, max_date]; a pair is taken as it is, start after end
\* included; the filter has then run, and a range without records gives an
\* empty view.
C9_RangeNormalized ==
    date_range # None =>
        LET dr == Val(date_range)
            lo == min_date(Val(workspace_df))
            hi == max_date(Val(workspace_df))
            s == Val(start_date)
            e == Val(end_date)
        IN /\ (dr.bare \/ Len(dr.vals) = 1) => (s = dr.vals[1] /\ e = dr.vals[1])
           /\ (~dr.bare /\ Len(dr.vals) \notin {1, 2}) => (s = lo /\ e = hi)
           /\ (~dr.bare /\ Len(dr.vals) = 2) => (s = dr.vals[1] /\ e = dr.vals[2])
           /\ filtered_workspace_df # None
           /\ NoRecordIn(Val(workspace_df), s, e) => Val(filtered_workspace_df).rows = << >>

C9_Witness ==
    /\ date_range # None
    /\ ~Val(date_range).bare
    /\ Len(Val(date_range).vals) = 2
    /\ Val(date_range).vals[1] > Val(date_range).vals[2]
    /\ Val(start_date) > Val(end_date)
    /\ Val(filtered_workspace_df).rows = << >>
    /\ pc = "done"

\* a source as section 6 fixes it: the file is there with every column of its
\* schema, and every date parses
SourceComplete(f) ==
    /\ f.member.exists /\ f.channel.exists /\ f.workspace.exists
    /\ MemberCols \subseteq f.member.cols
    /\ ChannelCols \subseteq f.channel.cols
    /\ WorkspaceCols \subseteq f.workspace.cols
    /\ \A i \in DOMAIN f.workspace.rows : DateParses(f.workspace.rows[i].date)

\* C10: the three datasets are bound together or not at all; after a failed load
\* none is bound and no filter or metrics result exists; and datasets are bound,
\* and a filter or calculate_metrics runs, only when the source they were read
\* from was complete.
C10_AtomicFatalLoad ==
    /\ (member_df = None) = (channel_df = None)
    /\ (channel_df = None) = (workspace_df = None)
    /\ member_df = None =>
          /\ date_range = None /\ filtered_workspace_df = None
          /\ min_messages = None /\ filtered_member_df = None /\ metrics = None
    /\ pc = "stopped" => member_df = None
    /\ member_df # None => SourceComplete(cache_src[LoadDataKey])


MemberMetrics == {"total_members", "total_member_messages", "avg_messages_per_member",
                  "avg_days_active", "high_engagement_count", "pct_high_engagement",
                  "members_with_messages", "pct_members_with_messages"}
WorkspaceMetrics == {"peak_daily_active", "peak_messages_per_day", "avg_daily_active",
                     "avg_messages_per_day", "total_messages_period",
                     "avg_engagement_ratio", "latest_enabled_members"}
Only(m, names) == [n \in names |-> Val(m)[n]]

\* C11: the bound datasets stay what load_data returned through both filters
\* and calculate_metrics, and are the same in the next run; each view is the
\* filter of the loaded dataset by its own selection alone, so it is the same
\* whichever filter ran first; a run with the same min_messages as the one
\* before it, whatever its date range, has the same filtered member view and
\* member metrics, and a run with the same date range, whatever its
\* min_messages, has the same filtered workspace view and workspace metrics.
C11_FiltersIndependent ==
    /\ member_df # None =>
          /\ member_df = Some(cache[LoadDataKey].member_df)
          /\ channel_df = Some(cache[LoadDataKey].channel_df)
          /\ workspace_df = Some(cache[LoadDataKey].workspace_df)
    /\ (member_df # None /\ prev # None) =>
          /\ member_df = Val(prev).member_df
          /\ channel_df = Val(prev).channel_df
          /\ workspace_df = Val(prev).workspace_df
    /\ filtered_member_df # None =>
          Val(filtered_member_df).rows
             = MessageMask(cache[LoadDataKey].member_df, Val(min_messages))
    /\ filtered_workspace_df # None =>
          Val(filtered_workspace_df).rows \in
             SortValuesDate(DateMask(cache[LoadDataKey].workspace_df,
                                     Val(start_date), Val(end_date)))
    /\ (metrics # None /\ prev # None /\ min_messages = Val(prev).min_messages) =>
          /\ filtered_member_df = Val(prev).filtered_member_df
          /\ Only(metrics, MemberMetrics) = Only(Val(prev).metrics, MemberMetrics)
    /\ (metrics # None /\ prev # None /\ date_range = Val(prev).date_range) =>
          /\ filtered_workspace_df = Val(prev).filtered_workspace_df
          /\ Only(metrics, WorkspaceMetrics) = Only(Val(prev).metrics, WorkspaceMetrics)

C11_Witness ==
    /\ metrics # None /\ prev # None
    /\ min_messages = Val(prev).min_messages
    /\ Val(min_messages) > 0
    /\ date_range # Val(prev).date_range
    /\ filtered_workspace_df # Val(prev).filtered_workspace_df
    /\ filtered_member_df = Val(prev).filtered_member_df
    /\ Val(filtered_member_df).rows # Val(member_df).rows

====
